---------------------------- MODULE Spec2Model ----------------------------
(***************************************************************************)
(* A model of the finance manager web service (src/app.py).                *)
(*                                                                         *)
(* Money is counted in thousandths of a dollar, so that an amount such as  *)
(* 0.001 (which float() accepts) and the rounding to 2 decimals at the     *)
(* output boundary are both expressible with integers.  Python's float     *)
(* arithmetic is modelled by exact arithmetic; round() and the ".2f" /     *)
(* ".1f" formats are modelled as rounding half to even.                    *)
(*                                                                         *)
(* Spec     : the API served one request at a time (each handler atomic).  *)
(* SpecConc : two server threads whose handlers on the expense collection  *)
(*            interleave at the file operations (read, open-for-write,     *)
(*            flush at close).                                             *)
(***************************************************************************)
EXTENDS Integers, Sequences, FiniteSets, TLC

VARIABLES
    expFile,   \* expenses.json
    budFile,   \* budget.json
    incFile,   \* income.json
    resp,      \* Spec: the response to the request served last
    pc,        \* SpecConc: where each server thread is in its handler
    loc,       \* SpecConc: each thread's request, local variables and response
    obs,       \* SpecConc: what each thread's load_expenses saw (history)
    conc       \* SpecConc: bookkeeping of the run (history)

vars == <<expFile, budFile, incFile, resp, pc, loc, obs, conc>>

\* ------------------------------------------------------------------ bounds

\* The longest expense list an add is issued against (Spec).
MaxExpenses == 2
\* The number of requests served in a run of SpecConc.
MaxRequests == 3

\* ------------------------------------------------------- program constants

CATEGORIES ==
    <<"Food", "Transport", "Shopping", "Entertainment",
      "Bills", "Healthcare", "Education", "Other">>

CategorySet == {CATEGORIES[i] : i \in 1..Len(CATEGORIES)}

\* Every category name a request of the model may carry, in the order
\* pandas' groupby (sort=True) lists its keys: ascending by string.
SortedNames ==
    <<"Bills", "Education", "Entertainment", "Food", "Gift",
      "Healthcare", "Other", "Shopping", "Transport">>

\* datetime.now(): the wall clock, fixed for a run.
NowYear == 2026
NowMonth == 11
MonthName == "November"
Today == "2026-11-06"

\* Thresholds of generate_tips, in thousandths of a dollar.
FoodLimit == 300000
TransportLimit == 200000
EntertainmentLimit == 150000
ShoppingLimit == 250000
\* len(tips) < 3 appends the general tips; tips[:6] is returned.
BackfillBelow == 3
MaxTips == 6

\* ------------------------------------------------------------- arithmetic

Min(a, b) == IF a <= b THEN a ELSE b

\* n / d rounded to the nearest integer, ties to even (d > 0).
RoundDiv(n, d) ==
    LET q == n \div d
        r == n % d
    IN  IF 2 * r < d THEN q
        ELSE IF 2 * r > d THEN q + 1
        ELSE IF q % 2 = 0 THEN q ELSE q + 1

\* round(x, 2) and f"{x:.2f}": x in thousandths, to a whole number of cents.
Round2(x) == 10 * RoundDiv(x, 10)

\* f"{(n / d) * 100:.1f}": a percentage in tenths of a percent.
Percent1(n, d) == RoundDiv(n * 1000, d)

RECURSIVE Digits(_)
Digits(n) == IF n < 10 THEN 1 ELSE 1 + Digits(n \div 10)

RECURSIVE SumSeq(_)
SumSeq(s) == IF s = <<>> THEN 0 ELSE Head(s) + SumSeq(Tail(s))

\* ------------------------------------------------------------ json text

\* len(repr(a)) of a non-negative float with at most 3 decimals.
AmountLen(a) ==
    LET frac == a % 1000
    IN  Digits(a \div 1000) + 1 +
        (IF frac % 100 = 0 THEN 1 ELSE IF frac % 10 = 0 THEN 2 ELSE 3)

\* The bytes json.dump(..., indent=2) writes for one expense besides its values.
ItemOverhead == 93

ItemLen(e) ==
    ItemOverhead + Digits(e.id) + Len(e.date) + Len(e.category)
        + AmountLen(e.amount) + Len(e.description)

\* The length of the text json.dump(expenses, f, indent=2) writes.
JsonLen(expenses) ==
    IF expenses = <<>> THEN 2
    ELSE 4 + SumSeq([i \in 1..Len(expenses) |-> ItemLen(expenses[i])])
           + 2 * (Len(expenses) - 1)

\* ------------------------------------------------------------ record store

\* A file: absent, empty (just truncated), the text of a JSON document, or
\* garbled (a document followed by the tail of a longer, older one).
AbsentFile == [kind |-> "absent", val |-> <<>>, len |-> 0]
NoBudgetFile == [kind |-> "absent"]
NoIncomeFile == [kind |-> "absent"]

\* open(EXPENSES_FILE, 'w'): the file exists and is empty.
Truncate(f) == [kind |-> "empty", val |-> <<>>, len |-> 0]

\* The buffered text reaches the file at offset 0 when the file is closed; a
\* file that is longer by then (another writer's text) keeps its tail.
WriteAt0(f, expenses) ==
    IF f.len > JsonLen(expenses)
    THEN [kind |-> "garbled", val |-> <<>>, len |-> f.len]
    ELSE [kind |-> "json", val |-> expenses, len |-> JsonLen(expenses)]

load_expenses(f) == IF f.kind = "json" THEN f.val ELSE <<>>

\* Mutant of save_expenses: the file is opened and the text never written.
save_expenses_lost(f, expenses) == Truncate(f)


save_expenses(f, expenses) == WriteAt0(Truncate(f), expenses)

DefaultBudget == [c \in CategorySet |-> 0]

load_budget(f) == IF f.kind = "json" THEN f.val ELSE DefaultBudget

save_budget(budget) == [kind |-> "json", val |-> budget]

load_income(f) == IF f.kind = "json" THEN f.val.monthly_income ELSE 0

save_income(monthly_income) ==
    [kind |-> "json", val |-> [monthly_income |-> monthly_income]]

\* ------------------------------------------------------------ month filter

\* datetime.strptime(date, '%Y-%m-%d') for the dates of the model.
strptime(date) ==
    CASE date = "2026-11-06" -> [ok |-> TRUE, year |-> 2026, month |-> 11]
      [] date = "2025-11-06" -> [ok |-> TRUE, year |-> 2025, month |-> 11]
      [] date = "2026-10-06" -> [ok |-> TRUE, year |-> 2026, month |-> 10]
      [] OTHER -> [ok |-> FALSE, year |-> 0, month |-> 0]

InCurrentMonth(exp) ==
    /\ strptime(exp.date).year = NowYear
    /\ strptime(exp.date).month = NowMonth

\* raised: strptime raised ValueError on some expense's date.
get_current_month_expenses(expenses) ==
    IF \E i \in 1..Len(expenses) : ~strptime(expenses[i].date).ok
    THEN [raised |-> TRUE, val |-> <<>>]
    ELSE [raised |-> FALSE, val |-> SelectSeq(expenses, InCurrentMonth)]

\* ----------------------------------------------------------- tip generator

Tip(kind, category, amount, percent) ==
    [kind |-> kind, category |-> category, amount |-> amount, percent |-> percent]

GeneralTips ==
    << Tip("track_every_expense", "", 0, 0),
       Tip("review_weekly", "", 0, 0),
       Tip("set_goals", "", 0, 0) >>

StartTip == Tip("start_logging", "", 0, 0)

BudgetOf(budget, category) ==
    IF category \in DOMAIN budget THEN budget[category] ELSE 0

\* Mutant of IncomeTips: the low-balance test comes before the overspend test.
IncomeTipsLowFirst(total_spent, monthly_income, money_left) ==
    IF monthly_income > 0
    THEN IF 10 * money_left < monthly_income
         THEN << Tip("low_balance", "", Round2(money_left), 0) >>
         ELSE IF total_spent > monthly_income
         THEN << Tip("income_alert", "", Round2(total_spent - monthly_income), 0) >>
         ELSE IF 5 * money_left > monthly_income
         THEN << Tip("positive_balance", "", Round2(money_left),
                     Percent1(money_left, monthly_income)) >>
         ELSE <<>>
    ELSE <<>>


IncomeTips(total_spent, monthly_income, money_left) ==
    IF monthly_income > 0
    THEN IF total_spent > monthly_income
         THEN << Tip("income_alert", "", Round2(total_spent - monthly_income), 0) >>
         ELSE IF 10 * money_left < monthly_income
         THEN << Tip("low_balance", "", Round2(money_left), 0) >>
         ELSE IF 5 * money_left > monthly_income
         THEN << Tip("positive_balance", "", Round2(money_left),
                     Percent1(money_left, monthly_income)) >>
         ELSE <<>>
    ELSE <<>>

BudgetTips(total_spent, total_budget) ==
    IF total_spent > total_budget
    THEN << Tip("over_budget", "", Round2(total_spent - total_budget), 0) >>
    ELSE <<>>

CategoryTips(category, spent, budget) ==
    IF spent = 0 THEN <<>>
    ELSE
      (IF BudgetOf(budget, category) > 0 /\ spent > BudgetOf(budget, category)
       THEN << Tip("category_over", category,
                   Round2(spent - BudgetOf(budget, category)),
                   Percent1(spent - BudgetOf(budget, category),
                            BudgetOf(budget, category))) >>
       ELSE <<>>)
      \o (IF category = "Food" /\ spent > FoodLimit
          THEN << Tip("food", category, Round2(spent), 0) >> ELSE <<>>)
      \o (IF category = "Transport" /\ spent > TransportLimit
          THEN << Tip("transport", category, Round2(spent), 0) >> ELSE <<>>)
      \o (IF category = "Entertainment" /\ spent > EntertainmentLimit
          THEN << Tip("entertainment", category, Round2(spent), 0) >> ELSE <<>>)
      \o (IF category = "Shopping" /\ spent > ShoppingLimit
          THEN << Tip("shopping", category, Round2(spent), 0) >> ELSE <<>>)

RECURSIVE AllCategoryTips(_, _)
AllCategoryTips(category_totals, budget) ==
    IF category_totals = <<>> THEN <<>>
    ELSE CategoryTips(Head(category_totals).category,
                      Head(category_totals).total, budget)
         \o AllCategoryTips(Tail(category_totals), budget)

SavingTips(total_spent, total_budget, monthly_income) ==
    IF total_budget > 0 /\ monthly_income > 0
    THEN LET left == IF total_spent < monthly_income
                     THEN monthly_income - total_spent ELSE 0
             rate == Percent1(left, monthly_income)
         IN  IF 100 * left > 20 * monthly_income
             THEN << Tip("saving_outstanding", "", 0, rate) >>
             ELSE IF 100 * left > 10 * monthly_income
             THEN << Tip("saving_good", "", 0, rate) >>
             ELSE IF left > 0
             THEN << Tip("saving_current", "", 0, rate) >>
             ELSE <<>>
    ELSE <<>>

Backfill(tips) == IF Len(tips) < BackfillBelow THEN tips \o GeneralTips ELSE tips

\* Mutant of Top: the list is returned whole.
TopUncut(tips) == tips


Top(tips) == SubSeq(tips, 1, Min(MaxTips, Len(tips)))

generate_tips(category_totals, budget, total_spent, total_budget, monthly_income, money_left) ==
    Top(Backfill(
        IncomeTips(total_spent, monthly_income, money_left)
        \o BudgetTips(total_spent, total_budget)
        \o AllCategoryTips(category_totals, budget)
        \o SavingTips(total_spent, total_budget, monthly_income)))

\* ----------------------------------------------------------------- analyzer

SumBudget(budget) ==
    LET RECURSIVE Sum(_)
        Sum(S) == IF S = {} THEN 0
                  ELSE LET c == CHOOSE x \in S : TRUE
                       IN  budget[c] + Sum(S \ {c})
    IN  Sum(DOMAIN budget)

AmountsOf(expenses, category) ==
    LET Is(e) == e.category = category
        sel == SelectSeq(expenses, Is)
    IN  SumSeq([i \in 1..Len(sel) |-> sel[i].amount])

TotalOf(expenses) == SumSeq([i \in 1..Len(expenses) |-> expenses[i].amount])

Pair(category, total) == [category |-> category, total |-> total]

\* df.groupby('category')['amount'].sum().to_dict(): one key per category
\* present, ascending.
GroupBy(expenses) ==
    LET Present(c) == \E i \in 1..Len(expenses) : expenses[i].category = c
        keys == SelectSeq(SortedNames, Present)
    IN  [i \in 1..Len(keys) |-> Pair(keys[i], AmountsOf(expenses, keys[i]))]

\* for cat in CATEGORIES: if cat not in category_totals: category_totals[cat] = 0
FillCategories(grouped) ==
    LET Missing(c) == \A i \in 1..Len(grouped) : grouped[i].category # c
        rest == SelectSeq(CATEGORIES, Missing)
    IN  grouped \o [i \in 1..Len(rest) |-> Pair(rest[i], 0)]

CategoryTotals(monthly_expenses) == FillCategories(GroupBy(monthly_expenses))

ZeroTotals == [i \in 1..Len(CATEGORIES) |-> Pair(CATEGORIES[i], 0)]

\* The outcome when get_current_month_expenses raised: no analysis.
Raised == [ok |-> FALSE, raised |-> TRUE]

\* The analysis field of a response that carries none.
NoAnalysis == [ok |-> FALSE, raised |-> FALSE]

EmptyMonth(budget, monthly_income) ==
    [ ok |-> TRUE,
      total_spent |-> 0,
      total_budget |-> SumBudget(budget),
      remaining |-> SumBudget(budget),
      monthly_income |-> monthly_income,
      money_left |-> monthly_income,
      category_totals |-> ZeroTotals,
      tips |-> << StartTip >>,
      month_name |-> MonthName,
      year |-> NowYear,
      savings |-> IF monthly_income > 0
                  THEN monthly_income - SumBudget(budget) ELSE 0 ]

Reported(total_spent) == Round2(total_spent)

MonthAnalysis(monthly_expenses, budget, monthly_income) ==
    LET total_spent == TotalOf(monthly_expenses)
        total_budget == SumBudget(budget)
        money_left == monthly_income - total_spent
        category_totals == CategoryTotals(monthly_expenses)
    IN  [ ok |-> TRUE,
          total_spent |-> Reported(total_spent),
          total_budget |-> total_budget,
          remaining |-> Round2(total_budget - total_spent),
          monthly_income |-> monthly_income,
          money_left |-> Round2(money_left),
          category_totals |-> category_totals,
          tips |-> generate_tips(category_totals, budget, total_spent,
                                 total_budget, monthly_income, money_left),
          month_name |-> MonthName,
          year |-> NowYear,
          savings |-> IF monthly_income > 0
                      THEN Round2(monthly_income - total_budget) ELSE 0 ]

analyze_expenses(expenses, budget, monthly_income) ==
    LET monthly == get_current_month_expenses(expenses)
    IN  IF monthly.raised THEN Raised
        ELSE IF monthly.val = <<>> THEN EmptyMonth(budget, monthly_income)
        ELSE MonthAnalysis(monthly.val, budget, monthly_income)


\* The analysis of what is stored: what GET /api/expenses computes.
StoredAnalysis ==
    analyze_expenses(load_expenses(expFile), load_budget(budFile), load_income(incFile))

\* ----------------------------------------------------------------- requests

\* The JSON body of POST /api/expenses: which keys it has and their values.
Body(hasCategory, category, amountKind, amount, hasDate, date) ==
    [ hasCategory |-> hasCategory, category |-> category,
      amountKind |-> amountKind, amount |-> amount,
      hasDate |-> hasDate, date |-> date ]

NoData == Body(FALSE, "", "missing", 0, FALSE, "")

ValidBodies ==
    { Body(TRUE, "Food", "num", 350001, TRUE, "2026-11-06"),
      Body(TRUE, "Transport", "num", 350000, FALSE, ""),
      Body(TRUE, "Gift", "num", 350000, TRUE, "2026-11-06"),
      Body(TRUE, "Food", "num", 350000, TRUE, "2025-11-06"),
      Body(TRUE, "Food", "num", 350000, TRUE, "soon") }

InvalidBodies ==
    { Body(FALSE, "", "num", 350000, TRUE, "2026-11-06"),
      Body(TRUE, "Food", "missing", 0, TRUE, "2026-11-06"),
      Body(TRUE, "Food", "nonnum", 0, TRUE, "2026-11-06") }

Bodies == ValidBodies \cup InvalidBodies

\* Bodies of POST /api/budget: a full map and one that names one category.
FullBudget ==
    [c \in CategorySet |->
        IF c = "Food" THEN 300000 ELSE IF c = "Transport" THEN 200000 ELSE 0]

FoodOnlyBudget == [c \in {"Food"} |-> 300000]

BudgetBodies == {FullBudget, FoodOnlyBudget}

EmptyMap == [c \in {} |-> 0]

\* Bodies of POST /api/income: monthly_income numeric, absent, or not a number.
IncomeBodies ==
    { [kind |-> "num", value |-> 360000],
      [kind |-> "num", value |-> 2000000],
      [kind |-> "missing", value |-> 0],
      [kind |-> "nonnum", value |-> 0] }

NoIncomeData == [kind |-> "missing", value |-> 0]

DeleteIds == 1..MaxExpenses

\* --------------------------------------------------------------- responses

NoExpense == [id |-> 0, date |-> "", category |-> "", amount |-> 0, description |-> ""]

Response(op, status, success, analysis) ==
    [ op |-> op, status |-> status, success |-> success, analysis |-> analysis,
      expense |-> NoExpense, expenses |-> <<>>, budget |-> EmptyMap,
      monthly_income |-> 0, id |-> 0, data |-> NoData, income_data |-> NoIncomeData ]

\* An exception no handler catches: Flask answers 500 with no JSON payload.
Unhandled(op) == Response(op, 500, FALSE, NoAnalysis)

\* A handler's jsonify({'success': True, 'analysis': analysis}), which is
\* reached only when analyze_expenses returned.
Answer(op, analysis) ==
    IF analysis.ok THEN Response(op, 200, TRUE, analysis) ELSE Unhandled(op)

\* ------------------------------------------------------ handlers, one by one

\* Mutant of BodyRaises: the amount is not converted before the expense is stored.
BodyRaisesOnCategoryOnly(data) == ~data.hasCategory

\* data['category'] raises KeyError, data['amount'] KeyError, float() ValueError.
BodyRaises(data) ==
    \/ ~data.hasCategory
    \/ data.amountKind # "num"

NewExpense(expenses, data) ==
    [ id |-> Len(expenses) + 1,
      date |-> IF data.hasDate THEN data.date ELSE Today,
      category |-> data.category,
      amount |-> data.amount,
      description |-> "" ]

\* Mutant of WithoutId: the id is taken for a position in the list.
WithoutPosition(expenses, expense_id) ==
    [i \in 1..(Len(expenses) - (IF expense_id <= Len(expenses) THEN 1 ELSE 0)) |->
        IF i < expense_id THEN expenses[i] ELSE expenses[i + 1]]

\* [e for e in expenses if e['id'] != expense_id]
WithoutId(expenses, expense_id) ==
    LET Keep(e) == e.id # expense_id
    IN  SelectSeq(expenses, Keep)

Ids(expenses) == {expenses[i].id : i \in 1..Len(expenses)}

UnchangedThreads == UNCHANGED <<pc, loc, obs, conc>>

get_expenses ==
    /\ resp' = IF StoredAnalysis.ok
               THEN [Response("get_expenses", 200, TRUE, StoredAnalysis) EXCEPT
                        !.expenses = get_current_month_expenses(load_expenses(expFile)).val]
               ELSE Unhandled("get_expenses")
    /\ UNCHANGED <<expFile, budFile, incFile>>
    /\ UnchangedThreads

add_expense(data) ==
    LET loaded == load_expenses(expFile)
        expense == NewExpense(loaded, data)
        expenses == Append(loaded, expense)
        analysis == analyze_expenses(expenses, load_budget(budFile), load_income(incFile))
    IN  /\ Len(loaded) < MaxExpenses
        /\ IF BodyRaises(data)
           THEN /\ resp' = [Response("add_expense", 500, FALSE, NoAnalysis) EXCEPT
                               !.data = data]
                /\ UNCHANGED expFile
           ELSE /\ expFile' = save_expenses(expFile, expenses)
                /\ resp' = IF analysis.ok
                           THEN [Response("add_expense", 200, TRUE, analysis) EXCEPT
                                    !.data = data, !.expense = expense]
                           ELSE [Response("add_expense", 500, FALSE, NoAnalysis) EXCEPT
                                    !.data = data]
        /\ UNCHANGED <<budFile, incFile>>
        /\ UnchangedThreads

delete_expense(expense_id) ==
    LET expenses == WithoutId(load_expenses(expFile), expense_id)
        analysis == analyze_expenses(expenses, load_budget(budFile), load_income(incFile))
    IN  /\ expFile' = save_expenses(expFile, expenses)
        /\ resp' = [Answer("delete_expense", analysis) EXCEPT !.id = expense_id]
        /\ UNCHANGED <<budFile, incFile>>
        /\ UnchangedThreads

get_budget ==
    /\ resp' = [Response("get_budget", 200, TRUE, NoAnalysis) EXCEPT
                   !.budget = load_budget(budFile)]
    /\ UNCHANGED <<expFile, budFile, incFile>>
    /\ UnchangedThreads

set_budget(budget) ==
    /\ budFile' = save_budget(budget)
    /\ resp' = [Answer("set_budget",
                       analyze_expenses(load_expenses(expFile), budget, load_income(incFile)))
                   EXCEPT !.budget = budget]
    /\ UNCHANGED <<expFile, incFile>>
    /\ UnchangedThreads

get_income ==
    /\ resp' = [Response("get_income", 200, TRUE, NoAnalysis) EXCEPT
                   !.monthly_income = load_income(incFile)]
    /\ UNCHANGED <<expFile, budFile, incFile>>
    /\ UnchangedThreads

\* float(data.get('monthly_income', 0)) raises ValueError outside any handler.
set_income(data) ==
    /\ IF data.kind = "nonnum"
       THEN /\ resp' = [Unhandled("set_income") EXCEPT !.income_data = data]
            /\ UNCHANGED incFile
       ELSE /\ incFile' = save_income(data.value)
            /\ resp' = [Answer("set_income",
                               analyze_expenses(load_expenses(expFile),
                                                load_budget(budFile), data.value))
                           EXCEPT !.monthly_income = data.value, !.income_data = data]
    /\ UNCHANGED <<expFile, budFile>>
    /\ UnchangedThreads

\* ------------------------------------------------------------ server threads

Threads == {1, 2}

Other(t) == CHOOSE u \in Threads : u # t

NoRequest == [op |-> "none", data |-> NoData, id |-> 0]

IdleLoc ==
    [ req |-> NoRequest, expenses |-> <<>>, old |-> <<>>,
      status |-> 0, success |-> FALSE, analysis |-> NoAnalysis ]

NoObs == [during |-> FALSE, val |-> <<>>, old |-> <<>>, new |-> <<>>]

ConcBodies ==
    { Body(TRUE, "Food", "num", 350000, TRUE, "2026-11-06"),
      Body(TRUE, "Transport", "num", 350000, FALSE, "") }

ConcRequests ==
    {[op |-> "add_expense", data |-> d, id |-> 0] : d \in ConcBodies}
    \cup {[op |-> "delete_expense", data |-> NoData, id |-> i] : i \in 1..2}
    \cup {[op |-> "get_expenses", data |-> NoData, id |-> 0]}

Mutating(op) == op \in {"add_expense", "delete_expense"}

\* The server hands a request to a free thread.
Start(t, r) ==
    /\ pc[t] \in {"idle", "done"}
    /\ conc.started < MaxRequests
    /\ pc' = [pc EXCEPT ![t] = "load"]
    /\ loc' = [loc EXCEPT ![t] = [IdleLoc EXCEPT !.req = r]]
    /\ obs' = [obs EXCEPT ![t] = NoObs]
    /\ conc' = [conc EXCEPT !.started = @ + 1, !.raced = FALSE]
    /\ UNCHANGED <<expFile, budFile, incFile, resp>>

\* Whether u is inside save_expenses: it has opened the file and not closed it.
Saving(u) == pc[u] = "close"

\* expenses = load_expenses(), and what the handler does before it next
\* touches a file.
Load(t) ==
    LET u == Other(t)
        loaded == load_expenses(expFile)
        r == loc[t].req
        analysis == analyze_expenses(loaded, load_budget(budFile), load_income(incFile))
    IN  /\ pc[t] = "load"
        /\ obs' = [obs EXCEPT ![t] =
                     [ during |-> Saving(u), val |-> loaded,
                       old |-> IF Saving(u) THEN loc[u].old ELSE <<>>,
                       new |-> IF Saving(u) THEN loc[u].expenses ELSE <<>> ]]
        /\ CASE r.op = "get_expenses" ->
                  /\ pc' = [pc EXCEPT ![t] = "done"]
                  /\ loc' = [loc EXCEPT ![t].expenses = loaded,
                                        ![t].status = IF analysis.ok THEN 200 ELSE 500,
                                        ![t].success = analysis.ok,
                                        ![t].analysis = IF analysis.ok THEN analysis
                                                        ELSE NoAnalysis]
             [] r.op = "add_expense" /\ BodyRaises(r.data) ->
                  /\ pc' = [pc EXCEPT ![t] = "done"]
                  /\ loc' = [loc EXCEPT ![t].expenses = loaded, ![t].status = 500]
             [] r.op = "add_expense" /\ ~BodyRaises(r.data) ->
                  /\ pc' = [pc EXCEPT ![t] = "open"]
                  /\ loc' = [loc EXCEPT ![t].expenses =
                                Append(loaded, NewExpense(loaded, r.data))]
             [] r.op = "delete_expense" ->
                  /\ pc' = [pc EXCEPT ![t] = "open"]
                  /\ loc' = [loc EXCEPT ![t].expenses = WithoutId(loaded, r.id)]
        /\ UNCHANGED <<expFile, budFile, incFile, resp, conc>>

\* save_expenses: open(EXPENSES_FILE, 'w') truncates the file.
Open(t) ==
    /\ pc[t] = "open"
    /\ expFile' = Truncate(expFile)
    /\ pc' = [pc EXCEPT ![t] = "close"]
    /\ loc' = [loc EXCEPT ![t].old = load_expenses(expFile)]
    /\ conc' = [conc EXCEPT !.raced = @ \/ pc[Other(t)] = "open"]
    /\ UNCHANGED <<budFile, incFile, resp, obs>>

\* save_expenses: leaving the with block flushes the text and closes the file.
Close(t) ==
    /\ pc[t] = "close"
    /\ expFile' = WriteAt0(expFile, loc[t].expenses)
    /\ pc' = [pc EXCEPT ![t] = "finish"]
    /\ conc' = [conc EXCEPT !.lastSaver = t]
    /\ UNCHANGED <<budFile, incFile, resp, loc, obs>>

\* load_budget, load_income, analyze_expenses(expenses, ...) and the response.
Finish(t) ==
    LET analysis == analyze_expenses(loc[t].expenses, load_budget(budFile),
                                     load_income(incFile))
    IN  /\ pc[t] = "finish"
        /\ pc' = [pc EXCEPT ![t] = "done"]
        /\ loc' = [loc EXCEPT ![t].status = IF analysis.ok THEN 200 ELSE 500,
                              ![t].success = analysis.ok,
                              ![t].analysis = IF analysis.ok THEN analysis ELSE NoAnalysis]
        /\ UNCHANGED <<expFile, budFile, incFile, resp, obs, conc>>

\* ------------------------------------------------------------ specifications

NoResp == Response("none", 0, FALSE, NoAnalysis)

Init ==
    /\ expFile = AbsentFile
    /\ budFile = NoBudgetFile
    /\ incFile = NoIncomeFile
    /\ resp = NoResp
    /\ pc = [t \in Threads |-> "idle"]
    /\ loc = [t \in Threads |-> IdleLoc]
    /\ obs = [t \in Threads |-> NoObs]
    /\ conc = [started |-> 0, raced |-> FALSE, lastSaver |-> 0]

Next ==
    \/ get_expenses
    \/ \E data \in Bodies : add_expense(data)
    \/ \E expense_id \in DeleteIds : delete_expense(expense_id)
    \/ get_budget
    \/ \E budget \in BudgetBodies : set_budget(budget)
    \/ get_income
    \/ \E data \in IncomeBodies : set_income(data)

Spec == Init /\ [][Next]_vars

NextConc ==
    \/ \E t \in Threads, r \in ConcRequests : Start(t, r)
    \/ \E t \in Threads : Load(t)
    \/ \E t \in Threads : Open(t)
    \/ \E t \in Threads : Close(t)
    \/ \E t \in Threads : Finish(t)

SpecConc == Init /\ [][NextConc]_vars

\* ------------------------------------------------------------------- claims

Stored == load_expenses(expFile)

HasAnalysis == resp.analysis.ok

\* The sum of the current month's amounts, before any rounding.
MonthSpent == TotalOf(get_current_month_expenses(Stored).val)

TotalsSum(category_totals) ==
    SumSeq([i \in 1..Len(category_totals) |-> category_totals[i].total])

TotalsKeys(category_totals) ==
    {category_totals[i].category : i \in 1..Len(category_totals)}

TipKinds(tips) == {tips[i].kind : i \in 1..Len(tips)}

\* C1: after any sequence of adds and deletes from an empty store, the stored
\* expenses have pairwise distinct ids.
C1_UniqueIds ==
    \A i, j \in 1..Len(Stored) : i # j => Stored[i].id # Stored[j].id

\* C2: a DELETE of an id that no stored expense has leaves the stored expenses
\* (members and order), the budget and the income as they were, and answers
\* with the analysis of the state before it; after any DELETE the id is not
\* stored, so that repeating the DELETE is such a no-op.
C2_DeleteMissingIsNoOp ==
    [][ resp'.op = "delete_expense" =>
          /\ resp'.id \notin Ids(load_expenses(expFile'))
          /\ resp'.id \notin Ids(load_expenses(expFile)) =>
                /\ load_expenses(expFile') = load_expenses(expFile)
                /\ budFile' = budFile
                /\ incFile' = incFile
                /\ resp'.analysis = (IF StoredAnalysis.ok THEN StoredAnalysis
                                     ELSE NoAnalysis) ]_vars

\* A DELETE answered with the list still at its full length: nothing was removed.
C2_Witness ==
    /\ resp.op = "delete_expense"
    /\ Len(Stored) = MaxExpenses
    /\ resp.id \notin Ids(Stored)
    /\ HasAnalysis

\* C3: every analysis returned has a key for each of the 8 categories in
\* category_totals, and the values of category_totals sum to total_spent.
C3_TotalsSumToSpent ==
    HasAnalysis =>
        /\ CategorySet \subseteq TotalsKeys(resp.analysis.category_totals)
        /\ TotalsSum(resp.analysis.category_totals) = resp.analysis.total_spent

\* C4: the tips of every analysis returned number at least 1 and at most 6.
C4_TipsBetween1And6 ==
    HasAnalysis => Len(resp.analysis.tips) \in 1..6

\* Seven tips were generated and the seventh (the savings rate) was cut.
C4_Witness ==
    /\ HasAnalysis
    /\ Len(resp.analysis.tips) = 6
    /\ resp.analysis.tips[1].kind = "positive_balance"
    /\ resp.analysis.tips[6].kind = "transport"
    /\ 5 * (load_income(incFile) - MonthSpent) > load_income(incFile)

\* C5: the budget map GET /api/budget returns has an entry for each of the 8
\* categories, whatever map was posted before.
C5_BudgetHasEveryCategory ==
    resp.op = "get_budget" => CategorySet \subseteq DOMAIN resp.budget

\* C6: a POST /api/expenses whose body lacks category or amount, or whose
\* amount is not numeric, is answered with success = false and status 500 and
\* leaves the three files as they were.
C6_InvalidAddRejected ==
    [][ ( /\ resp'.op = "add_expense"
          /\ \/ ~resp'.data.hasCategory
             \/ resp'.data.amountKind \in {"missing", "nonnum"} )
        => /\ resp'.status = 500
           /\ ~resp'.success
           /\ expFile' = expFile
           /\ budFile' = budFile
           /\ incFile' = incFile ]_vars

\* A non-numeric amount posted against a store that holds an expense.
C6_Witness ==
    /\ resp.op = "add_expense"
    /\ resp.data.amountKind = "nonnum"
    /\ resp.status = 500
    /\ Stored # <<>>

\* C7: when the income is positive and the month's spending exceeds it, the
\* first tip is the overspend alert, reporting spending minus income (to 2
\* decimals), and neither the low-balance warning nor the positive-balance
\* note is among the tips.
C7_OverspendAlertFirst ==
    (HasAnalysis /\ load_income(incFile) > 0 /\ MonthSpent > load_income(incFile))
    => /\ resp.analysis.tips[1] =
            Tip("income_alert", "", Round2(MonthSpent - load_income(incFile)), 0)
       /\ "low_balance" \notin TipKinds(resp.analysis.tips)
       /\ "positive_balance" \notin TipKinds(resp.analysis.tips)

\* Spending of 700.00 against an income of 360.00.
C7_Witness ==
    /\ HasAnalysis
    /\ load_income(incFile) > 0
    /\ MonthSpent > load_income(incFile)
    /\ resp.analysis.tips[1].kind = "income_alert"
    /\ resp.analysis.tips[1].amount > 0

\* C8: a load_expenses that runs while another request is inside
\* save_expenses returns the content before that save or the content it
\* writes, never an empty or default value.
C8_AtomicSave ==
    \A t \in Threads : obs[t].during => obs[t].val \in {obs[t].old, obs[t].new}

\* C9: when two mutating requests both load before either saves, then once
\* both are done the stored collection is the one the last saver wrote, and
\* both answered with success.
C9_LastWriterWins ==
    ( /\ conc.raced
      /\ \A t \in Threads : pc[t] = "done" /\ Mutating(loc[t].req.op) )
    => /\ load_expenses(expFile) = loc[conc.lastSaver].expenses
       /\ \A t \in Threads : loc[t].success

\* C10: served one at a time, every mutating request that answers with an
\* analysis answers with the analysis of what is stored afterwards (what
\* GET /api/expenses then returns); a DELETE or budget POST that fails does so
\* because that analysis raises.
C10_AnalysisOfPersistedState ==
    /\ ( /\ resp.op \in {"add_expense", "delete_expense", "set_budget", "set_income"}
         /\ resp.status = 200 )
       => resp.analysis = StoredAnalysis
    /\ (resp.op \in {"delete_expense", "set_budget"} /\ resp.status = 500)
       => ~StoredAnalysis.ok

\* An add answered with an analysis that reflects the budget and income set before.
C10_Witness ==
    /\ resp.op = "add_expense"
    /\ resp.status = 200
    /\ resp.analysis.total_spent > 0
    /\ resp.analysis.total_budget > 0
    /\ resp.analysis.monthly_income > 0

=============================================================================
